---- MODULE Spec2Model ----
(***************************************************************************)
(* Model of backend/forecast_utils.py: the recursive forecast loops        *)
(* recursive_forecast_cpu / recursive_forecast_storage and the single-shot *)
(* feature completer prepare_single_prediction_features.                   *)
(*                                                                         *)
(* Numbers.  A pandas cell is modelled exactly, as a record                *)
(*   [n |-> numerator, d |-> denominator, r |-> root]                      *)
(* standing for (n/d)^(1/r): r = 1 is a rational in lowest terms, r = 2 is *)
(* the square root of a rational that is not a perfect square (what        *)
(* Series.std() returns).  d = 0 marks the two non-finite floats: NaN      *)
(* (n = 0, the missing value of pandas) and inf (n = 1).                   *)
(***************************************************************************)
EXTENDS Integers, Sequences, FiniteSets, TLC

VARIABLES
    df,             \* app.py: the dataset loaded at startup, shared by every call
    cpu_model,      \* app.py: the CPU predictor loaded at startup
    storage_model,  \* app.py: the storage predictor loaded at startup
    pc,             \* per caller: "idle", "loop", "returned" or "raised"
    fn,             \* per caller: the function of its current or last call
    n_days,         \* per caller: the n_days argument
    input_data,     \* per caller: the input_data argument of the completer
    day,            \* per caller: iterations of the loop completed
    history,        \* per caller: the local history frame
    predictions,    \* per caller: the local predictions list
    row,            \* per caller: the row last handed to model.predict
    npredict,       \* per caller: model.predict invocations of the call so far
    result,         \* per caller: what the call returned or raised
    kept,           \* app.py: a forecast a request handler still holds
    ncalls,         \* calls started so far
    now,            \* datetime.now(), in hours since monitoring_utils was imported
    health_args,    \* the arguments of the last monitoring_stats call
    health,         \* the dict the last monitoring_stats call returned
    retrainings     \* trigger_retraining invocations so far

\* the state of the forecasting calls
forecasting == <<df, cpu_model, storage_model, pc, fn, n_days, input_data, day,
                 history, predictions, row, npredict, result, kept, ncalls>>

\* the state of the monitoring rules
monitoring == <<now, health_args, health, retrainings>>

vars == <<df, cpu_model, storage_model, pc, fn, n_days, input_data, day, history,
          predictions, row, npredict, result, kept, ncalls, now, health_args,
          health, retrainings>>

----------------------------------------------------------------------------
(* Bounds of the model *)

\* largest n_days a caller passes
MaxDays == 3

\* number of calls made during one run of the process
MaxCalls == 3

\* the request threads of the process
Callers == {1, 2}

\* the request threads that make calls: one handler, one call after another
Active == {1}

\* days the process is observed after the import of monitoring_utils
MaxClockDays == 7

\* trigger_retraining invocations during one run of the process
MaxRetrainings == 3

----------------------------------------------------------------------------
(* Exact arithmetic on cells *)

NaN == [n |-> 0, d |-> 0, r |-> 1]

Inf == [n |-> 1, d |-> 0, r |-> 1]

Abs(i) == IF i < 0 THEN -i ELSE i

RECURSIVE Gcd(_, _)
Gcd(a, b) == IF b = 0 THEN a ELSE Gcd(b, a % b)

\* the rational p/q (q # 0) in lowest terms with a positive denominator
Rat(p, q) ==
    LET g == Gcd(Abs(p), Abs(q))
        s == IF q < 0 THEN -1 ELSE 1
    IN  [n |-> (s * p) \div g, d |-> (s * q) \div g, r |-> 1]

Num(i) == [n |-> i, d |-> 1, r |-> 1]

IsNaN(x) == x.d = 0 /\ x.n = 0

IsFinite(x) == x.d # 0

\* float addition; NaN and inf propagate, square roots do not occur as operands
Plus(x, y) ==
    IF IsNaN(x) \/ IsNaN(y) THEN NaN
    ELSE IF ~IsFinite(x) \/ ~IsFinite(y) THEN Inf
    ELSE Rat(x.n * y.d + y.n * x.d, x.d * y.d)

Minus(x, y) ==
    IF IsNaN(x) \/ IsNaN(y) THEN NaN
    ELSE IF ~IsFinite(x) \/ ~IsFinite(y) THEN Inf
    ELSE Rat(x.n * y.d - y.n * x.d, x.d * y.d)

Times(x, y) ==
    IF IsNaN(x) \/ IsNaN(y) THEN NaN
    ELSE IF ~IsFinite(x) \/ ~IsFinite(y) THEN Inf
    ELSE Rat(x.n * y.n, x.d * y.d)

\* numpy float64 division: x / 0 is inf (0 / 0 is NaN) with a warning, never a raise
Divide(x, y) ==
    IF IsNaN(x) \/ IsNaN(y) THEN NaN
    ELSE IF ~IsFinite(x) \/ ~IsFinite(y) THEN Inf
    ELSE IF y.n = 0 THEN (IF x.n = 0 THEN NaN ELSE Inf)
    ELSE Rat(x.n * y.d, x.d * y.n)

\* the largest k in lo..hi with k * k <= m, by bisection
RECURSIVE ISqrtFrom(_, _, _)
ISqrtFrom(m, lo, hi) ==
    IF lo >= hi THEN lo
    ELSE IF ((lo + hi + 1) \div 2) * ((lo + hi + 1) \div 2) <= m
    THEN ISqrtFrom(m, (lo + hi + 1) \div 2, hi)
    ELSE ISqrtFrom(m, lo, ((lo + hi + 1) \div 2) - 1)

\* floor of the square root of a natural number
ISqrt(m) == ISqrtFrom(m, 0, IF m < 46340 THEN m ELSE 46340)

IsSquare(m) == ISqrt(m) * ISqrt(m) = m

\* the non-negative square root of a non-negative rational
Sqrt(x) ==
    IF ~IsFinite(x) THEN x
    ELSE IF IsSquare(x.n) /\ IsSquare(x.d) THEN Rat(ISqrt(x.n), ISqrt(x.d))
    ELSE [n |-> x.n, d |-> x.d, r |-> 2]

RECURSIVE SumSeq(_)
SumSeq(s) == IF s = << >> THEN Num(0) ELSE Plus(Head(s), SumSeq(Tail(s)))

----------------------------------------------------------------------------
(* pandas helpers *)

\* Series.tail(k) / DataFrame.tail(k): the last k elements, all of them when fewer
TailN(s, k) == IF Len(s) <= k THEN s ELSE SubSeq(s, Len(s) - k + 1, Len(s))

\* history[col]: the column as a sequence, oldest first
Column(h, col) == [i \in 1..Len(h) |-> h[i][col]]

\* the mutant of ILocBack: the position is counted from the front
ILocFront(s, k) == s[k]

\* Series.iloc[-k]
ILocBack(s, k) == s[Len(s) - k + 1]

NotNaN(x) == ~IsNaN(x)

\* Series.mean(): skips missing values, NaN when nothing is left
Mean(s) ==
    LET v == SelectSeq(s, NotNaN)
    IN  IF v = << >> THEN NaN ELSE Divide(SumSeq(v), Num(Len(v)))

SquaredDev(s, m) == [i \in 1..Len(s) |-> Times(Minus(s[i], m), Minus(s[i], m))]

\* the standard deviation with divisor (count - ddof) of the non-missing values
StdDdof(s, ddof) ==
    LET v == SelectSeq(s, NotNaN)
    IN  IF Len(v) <= ddof THEN NaN
        ELSE Sqrt(Divide(SumSeq(SquaredDev(v, Mean(v))), Num(Len(v) - ddof)))

\* the mutant of Std: numpy's default divisor (ddof = 0) instead of pandas'
StdPopulation(s) == StdDdof(s, 0)

\* Series.std(): pandas' default is the sample standard deviation, ddof = 1
Std(s) == StdDdof(s, 1)

----------------------------------------------------------------------------
(* Column names *)

\* for col in ["usage_cpu", "usage_storage", "users_active"]
RawMetrics == <<"usage_cpu", "usage_storage", "users_active">>

RawMetricSet == {RawMetrics[i] : i \in DOMAIN RawMetrics}

LagOffsets == {1, 3, 7}

Windows == {3, 7}

LagName(col, k) == col \o "_lag_" \o ToString(k)

RollingName(col, stat, w) == col \o "_rolling_" \o stat \o "_" \o ToString(w)

CalendarColumns == {"month", "year", "is_weekend"}

RawColumns == {"usage_cpu", "usage_storage", "users_active", "economic_index",
               "cloud_market_demand"}

LagColumns == {LagName(col, k) : col \in RawMetricSet, k \in LagOffsets}

RollingColumns ==
    {RollingName(col, stat, w) : col \in RawMetricSet, stat \in {"mean", "std"},
                                  w \in Windows}

\* the derived features in the order the code assigns them
DerivedOrder == <<"cpu_per_user", "storage_per_user", "cpu_storage_ratio",
                  "econ_demand_ratio", "system_stress", "cpu_utilization_ratio",
                  "storage_efficiency">>

DerivedColumns == {DerivedOrder[i] : i \in DOMAIN DerivedOrder}

AllColumns == CalendarColumns \cup RawColumns \cup LagColumns \cup RollingColumns
              \cup DerivedColumns

\* the raw metric and the offset a lag column is read from
LagSource ==
    [name \in LagColumns |->
        CHOOSE p \in RawMetricSet \X LagOffsets : LagName(p[1], p[2]) = name]

\* the raw metric, the statistic and the window of a rolling column
RollingSource ==
    [name \in RollingColumns |->
        CHOOSE p \in RawMetricSet \X {"mean", "std"} \X Windows :
            RollingName(p[1], p[2], p[3]) = name]

\* epsilon = 1e-6, as the exact rational 1 / EpsilonInverse
EpsilonInverse == 1000000

epsilon == Rat(1, EpsilonInverse)

----------------------------------------------------------------------------
(* The reconstruction stages of one loop iteration.  A stage maps           *)
(* [last |-> the template record, err |-> the exception raised so far] to   *)
(* the same after the stage; a stage after an exception does nothing.       *)

NoError == [type |-> "none", key |-> ""]

KeyError(k) == [type |-> "KeyError", key |-> k]

IndexError == [type |-> "IndexError", key |-> ""]

ValueError == [type |-> "ValueError", key |-> ""]

Has(rec, k) == k \in DOMAIN rec

EmptyRecord == [k \in {} |-> NaN]

Started(last) == [last |-> last, err |-> NoError]

\* Series.__setitem__ for each key of upd that passes the code's `if key in last`
UpdateExisting(last, upd) ==
    [k \in DOMAIN last |-> IF k \in DOMAIN upd THEN upd[k] ELSE last[k]]

\* the mutant of SetItem: the value is written to both target metrics
SetItemBothTargets(last, k, v) ==
    [f \in DOMAIN last \cup {k} |->
        IF f \in {k, "usage_cpu", "usage_storage"} THEN v ELSE last[f]]

\* last[key] = value: an existing label is overwritten, a new one is added
SetItem(last, k, v) ==
    IF Has(last, k) THEN [last EXCEPT ![k] = v] ELSE (k :> v) @@ last

\* month % 12 on a whole number (months are whole in every dataset)
Mod12(x) == IF IsFinite(x) /\ x.d = 1 /\ x.r = 1 THEN Num(x.n % 12) ELSE NaN

\* last["month"] = (last["month"] % 12) + 1
MonthStep(last) ==
    IF Has(last, "month")
    THEN [last EXCEPT !["month"] = Plus(Mod12(last["month"]), Num(1))]
    ELSE last

\* the mutant of YearStep: the year is advanced when December is reached
YearStepAtTwelve(last) ==
    IF Has(last, "year") /\ last["month"] = Num(12)
    THEN [last EXCEPT !["year"] = Plus(last["year"], Num(1))]
    ELSE last

\* if last["month"] == 1: last["year"] += 1, on the month just advanced
YearStep(last) ==
    IF Has(last, "year") /\ last["month"] = Num(1)
    THEN [last EXCEPT !["year"] = Plus(last["year"], Num(1))]
    ELSE last

\* last["is_weekend"] = 1 - last["is_weekend"]
WeekendStep(last) ==
    IF Has(last, "is_weekend")
    THEN [last EXCEPT !["is_weekend"] = Minus(Num(1), last["is_weekend"])]
    ELSE last

\* 1) UPDATE DATE FEATURES; last["month"] raises when only "year" is a label
CalendarStage(s) ==
    IF s.err # NoError THEN s
    ELSE IF Has(s.last, "year") /\ ~Has(s.last, "month")
    THEN [last |-> s.last, err |-> KeyError("month")]
    ELSE Started(WeekendStep(YearStep(MonthStep(s.last))))

\* the columns of the history frame
HistoryColumns(h) == IF h = << >> THEN {} ELSE DOMAIN h[Len(h)]

\* the mutant of LagUpdates: every lag column is read one row too far back
LagUpdatesShifted(h) ==
    [name \in {x \in LagColumns : LagSource[x][2] + 1 <= Len(h)} |->
        ILocBack(Column(h, LagSource[name][1]), LagSource[name][2] + 1)]

\* the mutant of LagUpdates: the lag-7 columns are left as the template has them
LagUpdatesNoSeven(h) ==
    [name \in {x \in LagColumns : LagSource[x][2] <= Len(h) /\ LagSource[x][2] # 7} |->
        ILocBack(Column(h, LagSource[name][1]), LagSource[name][2])]

\* the lag columns the stage assigns, with the values it reads: lag-1 always,
\* lag-3 if len(history) >= 3, lag-7 if len(history) >= 7
LagUpdates(h) ==
    [name \in {x \in LagColumns : LagSource[x][2] <= Len(h)} |->
        ILocBack(Column(h, LagSource[name][1]), LagSource[name][2])]

\* the raw metrics history[...] is read for: those with a lag column in `last`
\* whose length guard passes
LagReads(last, h) ==
    {LagSource[x][1] : x \in {y \in LagColumns \cap DOMAIN last :
                                 LagSource[y][2] <= Len(h)}}

\* 2) UPDATE LAG FEATURES (1, 3, 7 days)
LagStage(s, h) ==
    IF s.err # NoError THEN s
    ELSE IF ~(LagReads(s.last, h) \subseteq HistoryColumns(h))
    THEN [last |-> s.last,
          err |-> KeyError(CHOOSE c \in LagReads(s.last, h) \ HistoryColumns(h) : TRUE)]
    ELSE Started(UpdateExisting(s.last, LagUpdates(h)))

\* the mutant of RollingValue: the window is one record too wide
RollingValueWide(h, col, stat, w) ==
    IF stat = "mean" THEN Mean(TailN(Column(h, col), w + 1))
    ELSE Std(TailN(Column(h, col), w + 1))

\* last3.mean(), last3.std(), last7.mean(), last7.std() of one raw metric
RollingValue(h, col, stat, w) ==
    IF stat = "mean" THEN Mean(TailN(Column(h, col), w))
    ELSE Std(TailN(Column(h, col), w))

\* the rolling columns, from the last 3 and the last 7 history values
RollingUpdates(h) ==
    [name \in RollingColumns |->
        RollingValue(h, RollingSource[name][1], RollingSource[name][2],
                     RollingSource[name][3])]

\* 3) UPDATE ROLLING FEATURES: history[col] is read for every col
RollingStage(s, h) ==
    IF s.err # NoError THEN s
    ELSE IF ~(RawMetricSet \subseteq HistoryColumns(h))
    THEN [last |-> s.last,
          err |-> KeyError(CHOOSE c \in RawMetricSet \ HistoryColumns(h) : TRUE)]
    ELSE Started(UpdateExisting(s.last, RollingUpdates(h)))

\* the labels a derived formula reads, in evaluation order
DerivedOperands ==
    [name \in DerivedColumns |->
        CASE name = "cpu_per_user" -> <<"usage_cpu_lag_1", "users_active_lag_1">>
          [] name = "storage_per_user" -> <<"usage_storage_lag_1", "users_active_lag_1">>
          [] name = "cpu_storage_ratio" -> <<"usage_cpu_lag_1", "usage_storage_lag_1">>
          [] name = "econ_demand_ratio" -> <<"economic_index", "cloud_market_demand">>
          [] name = "system_stress" ->
                <<"usage_cpu_lag_1", "usage_storage_lag_1", "users_active_lag_1">>
          [] name = "cpu_utilization_ratio" -> <<"usage_cpu_lag_1">>
          [] name = "storage_efficiency" ->
                <<"usage_storage_lag_1", "users_active_lag_1">>]

\* the mutant of DerivedFormula: the ratios divide by the bare operand
DerivedFormulaNoEpsilon(name, args) ==
    IF name = "system_stress" THEN Plus(Plus(args[1], args[2]), args[3])
    ELSE IF name = "cpu_utilization_ratio" THEN Divide(args[1], Num(100))
    ELSE Divide(args[1], args[2])

\* the value of a derived feature from the values of its operands, in order:
\* the sum for system_stress, a / 100.0 for cpu_utilization_ratio, and
\* a / (b + epsilon) for the five ratios
DerivedFormula(name, args) ==
    IF name = "system_stress" THEN Plus(Plus(args[1], args[2]), args[3])
    ELSE IF name = "cpu_utilization_ratio" THEN Divide(args[1], Num(100))
    ELSE Divide(args[1], Plus(args[2], epsilon))

\* the derived columns of `last` of which `last` lacks an operand
MissingOperands(last) ==
    {name \in DerivedColumns \cap DOMAIN last :
        \E j \in DOMAIN DerivedOperands[name] : ~Has(last, DerivedOperands[name][j])}

\* the position in DerivedOrder of the first column of a non-empty set
FirstDerived(names) ==
    CHOOSE i \in DOMAIN DerivedOrder :
        /\ DerivedOrder[i] \in names
        /\ \A j \in 1..(i - 1) : DerivedOrder[j] \notin names

\* the first operand of a derived column that `last` lacks
FirstMissing(last, name) ==
    DerivedOperands[name][CHOOSE j \in DOMAIN DerivedOperands[name] :
        /\ ~Has(last, DerivedOperands[name][j])
        /\ \A i \in 1..(j - 1) : Has(last, DerivedOperands[name][i])]

\* the mutant of DerivedStage: an absent operand is replaced by 0 (numerator)
\* or 1 (denominator), as the completer does
DerivedStageDefaulting(s) ==
    IF s.err # NoError THEN s
    ELSE Started([k \in DOMAIN s.last |->
                    IF k \in DerivedColumns
                    THEN DerivedFormula(k, [j \in DOMAIN DerivedOperands[k] |->
                            IF Has(s.last, DerivedOperands[k][j])
                            THEN s.last[DerivedOperands[k][j]]
                            ELSE Num(IF j = 1 THEN 0 ELSE 1)])
                    ELSE s.last[k]])

\* 4) UPDATE DERIVED FEATURES: last[...] raises KeyError on an absent label
DerivedStage(s) ==
    IF s.err # NoError THEN s
    ELSE IF MissingOperands(s.last) # {}
    THEN [last |-> s.last,
          err |-> KeyError(FirstMissing(s.last,
                      DerivedOrder[FirstDerived(MissingOperands(s.last))]))]
    ELSE Started([k \in DOMAIN s.last |->
                    IF k \in DerivedColumns
                    THEN DerivedFormula(k, [j \in DOMAIN DerivedOperands[k] |->
                                                s.last[DerivedOperands[k][j]]])
                    ELSE s.last[k]])

\* the mutant of Reconstruct: the derived features are computed before the lags
ReconstructDerivedFirst(last, h) ==
    CHOOSE out \in
        {RollingStage(s3, h) : s3 \in
            {LagStage(s2, h) : s2 \in
                {DerivedStage(s1) : s1 \in {CalendarStage(Started(last))}}}} : TRUE

\* stages 1) to 4) on the template record, stopping at the first exception
Reconstruct(last, h) ==
    CHOOSE out \in
        {DerivedStage(s3) : s3 \in
            {RollingStage(s2, h) : s2 \in
                {LagStage(s1, h) : s1 \in {CalendarStage(Started(last))}}}} : TRUE

Range(s) == {s[i] : i \in DOMAIN s}

NoRow == [columns |-> << >>, data |-> EmptyRecord]

\* the mutant of Reindex: the labels of `last` the model does not declare stay
ReindexKeepExtra(last, feature_cols) ==
    [columns |-> feature_cols,
     data |-> [f \in Range(feature_cols) \cup DOMAIN last |->
                  IF Has(last, f) THEN last[f] ELSE NaN]]

\* last.reindex(feature_cols) as a one-row frame: a label `last` lacks becomes NaN
Reindex(last, feature_cols) ==
    [columns |-> feature_cols,
     data |-> [f \in Range(feature_cols) |-> IF Has(last, f) THEN last[f] ELSE NaN]]

\* a row of a frame widened to the columns cols: a cell it has no value for is NaN
Widen(rec, cols) == [k \in cols |-> IF Has(rec, k) THEN rec[k] ELSE NaN]

\* pd.concat([history, pd.DataFrame([last])]): the columns are the union of both
Concat(h, last) ==
    [i \in 1..(Len(h) + 1) |->
        Widen(IF i <= Len(h) THEN h[i] ELSE last, HistoryColumns(h) \cup DOMAIN last)]

----------------------------------------------------------------------------
(* The predictor: model.feature_names_in_ and model.predict                 *)

CalendarSeq == <<"month", "year", "is_weekend">>

LagSeq == [i \in 1..9 |->
             LagName(RawMetrics[((i - 1) % 3) + 1],
                     IF i <= 3 THEN 1 ELSE IF i <= 6 THEN 3 ELSE 7)]

RollingSeq == [i \in 1..12 |->
                 RollingName(RawMetrics[((i - 1) \div 4) + 1],
                             IF (i - 1) % 2 = 0 THEN "mean" ELSE "std",
                             IF (i - 1) % 4 < 2 THEN 3 ELSE 7)]

\* every engineered column of the training dataset, the raw metrics other than
\* the target included
FullFeatures(target) ==
    CalendarSeq
    \o SelectSeq(<<"usage_cpu", "usage_storage", "users_active", "economic_index",
                   "cloud_market_demand">>, LAMBDA c : c # target)
    \o LagSeq \o RollingSeq \o DerivedOrder

\* a model trained on few features, declared in another order than the dataset's
ShortFeatures(target) ==
    <<"system_stress", RollingName(target, "mean", 3), "month", LagName(target, 1)>>

\* a model that declares a feature no column and no stage provides
GapFeatures(target) == FullFeatures(target) \o <<"unknown_feature">>

\* the stub predictors: deterministic functions of the row; `nan` says whether
\* predict() rejects a row holding a non-finite cell (as scikit-learn's input
\* validation does) or accepts it.  The kind "nan_in_january" returns the
\* invalid value NaN for a row whose month is 1
Predictor(target, features, kind, nan) ==
    [target |-> target, feature_names_in_ |-> features, kind |-> kind, nan |-> nan]

\* the models for one target column
Predictors(target) ==
    {Predictor(target, FullFeatures(target), "lag1_plus_1", "raise"),
     Predictor(target, GapFeatures(target), "lag1_plus_1", "accept"),
     Predictor(target, GapFeatures(target), "lag1_plus_1", "raise"),
     Predictor(target, ShortFeatures(target), "stress_plus_month", "raise"),
     Predictor(target, FullFeatures(target), "nan_in_january", "raise")}

\* the pairs (cpu_model, storage_model) loaded at startup: both of one kind
ModelPairs ==
    {pair \in Predictors("usage_cpu") \X Predictors("usage_storage") :
        /\ pair[1].kind = pair[2].kind
        /\ pair[1].nan = pair[2].nan
        /\ Len(pair[1].feature_names_in_) = Len(pair[2].feature_names_in_)}

\* model.predict(x)[0]: [ok |-> FALSE] when predict raises
Predict(model, x) ==
    IF model.nan = "raise" /\ \E f \in DOMAIN x.data : ~IsFinite(x.data[f])
    THEN [ok |-> FALSE, value |-> NaN, err |-> ValueError]
    ELSE [ok |-> TRUE,
          value |-> IF model.kind = "lag1_plus_1"
                    THEN Plus(x.data[LagName(model.target, 1)], Num(1))
                    ELSE IF model.kind = "nan_in_january"
                    THEN (IF x.data["month"] = Num(1) THEN NaN
                          ELSE Plus(x.data[LagName(model.target, 1)], Num(1)))
                    ELSE Plus(x.data["system_stress"], x.data["month"]),
          err |-> NoError]

----------------------------------------------------------------------------
(* The source dataset: mlmodeltrainingdataset.csv, read once at startup     *)

\* the observed series of a dataset variant, oldest day first
Observed(v) ==
    IF v = 1
    THEN [usage_cpu |-> <<8, 9, 7, 10, 9, 11, 8, 9, 10, 12, 11, 13, 14, 15, 16>>,
          usage_storage |-> <<5, 6, 5, 7, 6, 5, 6, 4, 5, 7, 6, 8, 6, 9, 0>>,
          users_active |-> <<2, 3, 2, 1, 2, 3, 4, 3, 2, 4, 0, 5, 3, 1, 0>>,
          economic_index |-> <<5, 5, 6, 6, 7, 7, 5, 5, 6, 6, 7, 7, 5, 5, 6>>,
          cloud_market_demand |-> <<1, 2, 0, 1, 2, 0, 1, 2, 0, 1, 2, 0, 1, 2, 0>>,
          month |-> 11, year |-> 2023,
          is_weekend |-> <<0, 0, 0, 0, 0, 1, 1, 0, 0, 0, 0, 0, 1, 1, 0>>]
    ELSE [usage_cpu |-> <<20, 18, 18, 18, 21, 17, 19, 19, 22, 18, 18, 18, 20, 20, 23>>,
          usage_storage |-> <<3, 3, 3, 3, 3, 3, 3, 3, 3, 3, 3, 3, 3, 3, 3>>,
          users_active |-> <<1, 2, 3, 4, 5, 6, 7, 8, 9, 10, 11, 12, 13, 14, 15>>,
          economic_index |-> <<9, 8, 7, 9, 8, 7, 9, 8, 7, 9, 8, 7, 9, 8, 7>>,
          cloud_market_demand |-> <<4, 4, 4, 5, 5, 5, 4, 4, 4, 5, 5, 5, 4, 4, 4>>,
          month |-> 12, year |-> 2024,
          is_weekend |-> <<0, 0, 1, 1, 0, 0, 0, 0, 0, 1, 1, 0, 0, 0, 1>>]

\* the days a variant has observations for
ObservedDays(v) == Len(Observed(v).usage_cpu)

\* the calendar and raw columns of day j
RawRecord(o, j) ==
    [month |-> Num(o.month), year |-> Num(o.year),
     is_weekend |-> Num(o.is_weekend[j]),
     usage_cpu |-> Num(o.usage_cpu[j]),
     usage_storage |-> Num(o.usage_storage[j]),
     users_active |-> Num(o.users_active[j]),
     economic_index |-> Num(o.economic_index[j]),
     cloud_market_demand |-> Num(o.cloud_market_demand[j])]

\* the feature-engineered row of a day from its raw record and those of the days
\* before it: the lag, rolling and derived columns are materialised
EngineeredRecord(raw, before, cols) ==
    DerivedStage(RollingStage(LagStage(Started(Widen(raw, cols)), before),
                              before)).last

\* the rows history is initialised with: "last 7 days"
SeedRows == 7

\* the column sets of the datasets
ColumnSets == {AllColumns}

\* the row counts of the datasets
RowCounts == {0, 1, 3, 7, 8}

\* the dataset of variant v with its last n days as rows
Dataset(v, n, cols) ==
    [i \in 1..n |->
        EngineeredRecord(RawRecord(Observed(v), ObservedDays(v) - n + i),
                         [j \in 1..(ObservedDays(v) - n + i - 1) |->
                             RawRecord(Observed(v), j)],
                         cols)]

\* the columns of a dataset that has the derived columns but lacks a lag-1
\* column their formulas read
IncompleteColumns == AllColumns \ {"users_active_lag_1"}

\* the first variant at every row count, the second with a full seed, and the
\* first with a full seed of incomplete records
Datasets ==
    {Dataset(1, n, cols) : n \in RowCounts, cols \in ColumnSets}
    \cup {Dataset(2, SeedRows, cols) : cols \in ColumnSets}
    \cup {Dataset(1, SeedRows, IncompleteColumns)}

----------------------------------------------------------------------------
(* prepare_single_prediction_features(input_data, df)                       *)

\* features[key] = value for every key of upd, present or not
SetAll(features, upd) == upd @@ features

\* the lag entries the completer writes: lag-k if len(recent) >= k
CompleterLags(recent) ==
    [name \in {x \in LagColumns : LagSource[x][2] <= Len(recent)} |->
        ILocBack(Column(recent, LagSource[name][1]), LagSource[name][2])]

\* if 'usage_cpu_lag_1' not in features: every lag and rolling entry is written
FillFromHistory(input, recent) ==
    IF Has(input, "usage_cpu_lag_1") THEN input
    ELSE SetAll(input, CompleterLags(recent) @@ RollingUpdates(recent))

\* the mutant of GetOrDefault: every default is 0
GetOrZero(features, name, j) ==
    IF Has(features, DerivedOperands[name][j]) THEN features[DerivedOperands[name][j]]
    ELSE Num(0)

\* features.get(label, default): the default is 1 for the denominator of a
\* ratio and 0 for every other operand
GetOrDefault(features, name, j) ==
    IF Has(features, DerivedOperands[name][j]) THEN features[DerivedOperands[name][j]]
    ELSE IF name # "system_stress" /\ j = 2 THEN Num(1) ELSE Num(0)

\* a derived feature is computed if it is not in features
FillDerived(features) ==
    [name \in DerivedColumns \ DOMAIN features |->
        DerivedFormula(name, [j \in DOMAIN DerivedOperands[name] |->
                                 GetOrDefault(features, name, j)])] @@ features

PrepareSingle(input, d) == FillDerived(FillFromHistory(input, TailN(d, 7)))

\* the partial feature rows callers post to /api/predict_cpu
PartialInputs ==
    {EmptyRecord,
     [usage_cpu_lag_1 |-> Num(20)],
     [usage_storage_lag_1 |-> Num(70), cpu_per_user |-> Num(3)],
     [economic_index |-> Num(5), month |-> Num(4)]}

----------------------------------------------------------------------------
(* The monitoring rules (monitoring_utils.py).  Dates are hours relative to  *)
(* the import of the module; the message and recommendation texts of the    *)
(* report are left out.                                                      *)

HoursPerDay == 24

\* the clock is read at steps of half a day
TickHours == 12

\* Check 2: if days_since_train > 30
StaleDays == 30

\* LAST_TRAIN_DATE = datetime.now() - timedelta(days=25)
MockTrainAgeDays == 25

\* threshold=10.0
DefaultThreshold == Num(10)

\* last_train_date=None
None == [none |-> TRUE, at |-> 0]

\* a datetime passed as last_train_date
Datetime(h) == [none |-> FALSE, at |-> h]

\* the module-level mock, evaluated once at import
LAST_TRAIN_DATE == Datetime(0 - MockTrainAgeDays * HoursPerDay)

\* x > y on floats: false when either side is NaN
Greater(x, y) ==
    IF IsNaN(x) \/ IsNaN(y) THEN FALSE
    ELSE IF ~IsFinite(y) THEN FALSE
    ELSE IF ~IsFinite(x) THEN TRUE
    ELSE x.n * y.d > y.n * x.d

\* timedelta.days of a difference of h hours: whole days, rounded down (also
\* for a negative difference)
TimedeltaDays(h) == (h - (h % HoursPerDay)) \div HoursPerDay

\* round(float(x), 2): the nearest hundredth, an exact tie going to the even
\* one; NaN and inf are returned as they are
Round2(x) ==
    IF ~IsFinite(x) THEN x
    ELSE LET scaled == 100 * x.n
             rest == scaled % x.d
             q == (scaled - rest) \div x.d
             h == IF 2 * rest > x.d THEN q + 1
                  ELSE IF 2 * rest < x.d THEN q
                  ELSE IF q % 2 = 0 THEN q ELSE q + 1
         IN  Rat(h, 100)

\* status = "stable"; retrain_triggered = False
StableStatus == [status |-> "stable", retrain_triggered |-> FALSE]

\* Check 1: Error Drift
CheckDrift(s, mape, threshold) ==
    IF Greater(mape, threshold)
    THEN [status |-> "drift_detected", retrain_triggered |-> TRUE]
    ELSE s

\* the mutant of Stale: a model of exactly 30 days is stale
StaleInclusive(days_since_train) == days_since_train >= StaleDays

\* days_since_train > 30
Stale(days_since_train) == days_since_train > StaleDays

\* Check 2: Data Age (Staleness)
CheckAge(s, days_since_train) ==
    IF Stale(days_since_train)
    THEN [status |-> "stale", retrain_triggered |-> TRUE]
    ELSE s

\* the dict monitoring_stats returns when the clock reads `clock`
MonitoringStats(mape, threshold, last_train_date, clock) ==
    LET trained == IF last_train_date = None THEN LAST_TRAIN_DATE
                   ELSE last_train_date
        days_since_train == TimedeltaDays(clock - trained.at)
        s == CheckAge(CheckDrift(StableStatus, mape, threshold), days_since_train)
    IN  [mape |-> Round2(mape),
         threshold |-> threshold,
         days_since_retrain |-> days_since_train,
         status |-> s.status,
         retrain_triggered |-> s.retrain_triggered]

\* the values of mape, threshold and last_train_date the callers pass
MapeValues == {Rat(1, 8), Num(10), Rat(10004, 1000), Num(15), NaN}

Thresholds == {DefaultThreshold, Num(15)}

TrainDates == {None, Datetime(0 - StaleDays * HoursPerDay), Datetime(HoursPerDay)}

NoArgs == [mape |-> NaN, threshold |-> NaN, last_train_date |-> None]

NoHealth ==
    [mape |-> NaN, threshold |-> NaN, days_since_retrain |-> 0,
     status |-> "none", retrain_triggered |-> FALSE]

----------------------------------------------------------------------------
(* The calls *)

Functions == {"recursive_forecast_cpu", "recursive_forecast_storage"}

NoResult == [status |-> "none", value |-> << >>, err |-> NoError]

Returned(v) == [status |-> "ok", value |-> v, err |-> NoError]

Raised(e) == [status |-> "error", value |-> << >>, err |-> e]

NothingKept == [fn |-> "none", n_days |-> 0, value |-> << >>]

\* the mutant of range: one value too many
rangeInclusive(n) == 0..n

\* range(n_days): the values `day` takes in the for loop
range(n) == 0..(n - 1)

\* the mutant of Seed: one buffer shared by the calls in flight
SeedShared(c, d) ==
    IF \E o \in Callers \ {c} : pc[o] = "loop" /\ history[o] # << >>
    THEN history[CHOOSE o \in Callers \ {c} : pc[o] = "loop" /\ history[o] # << >>]
    ELSE TailN(d, SeedRows)

\* the mutant of Seed: a buffer kept from the caller's previous call is reused
SeedKept(c, d) == IF history[c] # << >> THEN history[c] ELSE TailN(d, SeedRows)

\* history = df.tail(7).copy(), on the call's own copy of df
Seed(c, d) == TailN(d, SeedRows)

TypeOK ==
    /\ pc \in [Callers -> {"idle", "loop", "returned", "raised"}]
    /\ fn \in [Callers -> Functions \cup {"none", "prepare_single_prediction_features"}]
    /\ n_days \in [Callers -> 0..MaxDays]
    /\ day \in [Callers -> 0..MaxDays]
    /\ npredict \in [Callers -> 0..MaxDays]
    /\ ncalls \in 0..MaxCalls
    /\ now \in 0..(MaxClockDays * HoursPerDay)
    /\ retrainings \in 0..MaxRetrainings
    /\ health.retrain_triggered \in BOOLEAN
    /\ health.status \in {"none", "stable", "drift_detected", "stale"}

\* no call has been made yet
NoCallYet ==
    /\ pc = [c \in Callers |-> "idle"]
    /\ fn = [c \in Callers |-> "none"]
    /\ n_days = [c \in Callers |-> 0]
    /\ input_data = [c \in Callers |-> EmptyRecord]
    /\ day = [c \in Callers |-> 0]
    /\ history = [c \in Callers |-> << >>]
    /\ predictions = [c \in Callers |-> << >>]
    /\ row = [c \in Callers |-> NoRow]
    /\ npredict = [c \in Callers |-> 0]
    /\ result = [c \in Callers |-> NoResult]
    /\ kept = NothingKept
    /\ ncalls = 0
    /\ now = 0
    /\ health_args = NoArgs
    /\ health = NoHealth
    /\ retrainings = 0

Init ==
    /\ df \in Datasets
    /\ \E pair \in ModelPairs : cpu_model = pair[1] /\ storage_model = pair[2]
    /\ NoCallYet

\* a caller enters recursive_forecast_cpu / recursive_forecast_storage: df is
\* copied, history seeded, predictions = []
Call(c, f, n) ==
    /\ pc[c] # "loop"
    /\ ncalls < MaxCalls
    /\ ncalls' = ncalls + 1
    /\ pc' = [pc EXCEPT ![c] = "loop"]
    /\ fn' = [fn EXCEPT ![c] = f]
    /\ n_days' = [n_days EXCEPT ![c] = n]
    /\ day' = [day EXCEPT ![c] = 0]
    /\ history' = [history EXCEPT ![c] = Seed(c, df)]
    /\ predictions' = [predictions EXCEPT ![c] = << >>]
    /\ row' = [row EXCEPT ![c] = NoRow]
    /\ npredict' = [npredict EXCEPT ![c] = 0]
    /\ result' = [result EXCEPT ![c] = NoResult]
    /\ UNCHANGED <<df, cpu_model, storage_model, input_data, kept>>
    /\ UNCHANGED monitoring

\* the mutant of SharedAfterWrite: `last` is a view of the last row of df
SharedAfterWriteThrough(d, last) ==
    IF d = << >> THEN d ELSE [d EXCEPT ![Len(d)] = last]

\* the shared frame after an iteration wrote the record `last`: df.copy(),
\* df.tail(7).copy() and history.iloc[-1].copy() make `last` the call's own
\* object, so the frame loaded at startup keeps its rows
SharedAfterWrite(d, last) == d

\* the mutant of Raise: the exception is swallowed and the predictions made so
\* far are returned
RaiseReturnsPartial(c, e) ==
    /\ pc' = [pc EXCEPT ![c] = "returned"]
    /\ result' = [result EXCEPT ![c] = Returned(predictions[c])]
    /\ UNCHANGED <<history, predictions, day>>

\* the call of caller c ends with exception e; the model keeps the last values
\* of its locals
Raise(c, e) ==
    /\ pc' = [pc EXCEPT ![c] = "raised"]
    /\ result' = [result EXCEPT ![c] = Raised(e)]
    /\ UNCHANGED <<history, predictions, day>>

\* 5) MAKE PREDICTION and 6) UPDATE HISTORY, on the reconstructed record rec,
\* the reindexed row x and the outcome p of model.predict
PredictAndAppend(c, target, rec, x, p) ==
    /\ df' = SharedAfterWrite(df, rec.last)
    /\ row' = [row EXCEPT ![c] = x]
    /\ npredict' = [npredict EXCEPT ![c] = @ + 1]
    /\ IF ~p.ok
       THEN Raise(c, p.err)
       ELSE /\ predictions' = [predictions EXCEPT ![c] = Append(@, p.value)]
            /\ history' = [history EXCEPT ![c] =
                             Concat(@, SetItem(rec.last, target, p.value))]
            /\ day' = [day EXCEPT ![c] = @ + 1]
            /\ UNCHANGED <<pc, result>>

\* one pass of the body of `for day in range(n_days)` with the given model and
\* target column
LoopBody(c, model, target) ==
    /\ pc[c] = "loop"
    /\ day[c] \in range(n_days[c])
    /\ IF history[c] = << >>
       THEN \* history.iloc[-1] on an empty frame
            /\ Raise(c, IndexError)
            /\ UNCHANGED <<df, row, npredict>>
       ELSE \E rec \in {Reconstruct(history[c][Len(history[c])], history[c])} :
                IF rec.err # NoError
                THEN /\ Raise(c, rec.err)
                     /\ df' = SharedAfterWrite(df, rec.last)
                     /\ UNCHANGED <<row, npredict>>
                ELSE \E x \in {Reindex(rec.last, model.feature_names_in_)} :
                        \E p \in {Predict(model, x)} :
                            PredictAndAppend(c, target, rec, x, p)
    /\ UNCHANGED <<cpu_model, storage_model, fn, n_days, input_data, kept,
                   ncalls>>
    /\ UNCHANGED monitoring

\* the mutant of IterateCpu: the prediction is written to users_active
IterateCpuUsersTarget(c) ==
    /\ fn[c] = "recursive_forecast_cpu"
    /\ LoopBody(c, cpu_model, "users_active")

\* recursive_forecast_cpu: one iteration
IterateCpu(c) ==
    /\ fn[c] = "recursive_forecast_cpu"
    /\ LoopBody(c, cpu_model, "usage_cpu")

\* the mutant of IterateStorage: the prediction is written to usage_cpu
IterateStorageCpuTarget(c) ==
    /\ fn[c] = "recursive_forecast_storage"
    /\ LoopBody(c, storage_model, "usage_cpu")

\* recursive_forecast_storage: one iteration
IterateStorage(c) ==
    /\ fn[c] = "recursive_forecast_storage"
    /\ LoopBody(c, storage_model, "usage_storage")

\* the mutant of Return: the loop is left after its first iteration
ReturnAfterOne(c) ==
    /\ pc[c] = "loop"
    /\ day[c] >= 1
    /\ pc' = [pc EXCEPT ![c] = "returned"]
    /\ result' = [result EXCEPT ![c] = Returned(predictions[c])]
    /\ UNCHANGED <<df, cpu_model, storage_model, fn, n_days, input_data, day,
                   history, predictions, row, npredict, kept, ncalls>>
    /\ UNCHANGED monitoring

\* return predictions, once range(n_days) is exhausted
Return(c) ==
    /\ pc[c] = "loop"
    /\ day[c] \notin range(n_days[c])
    /\ pc' = [pc EXCEPT ![c] = "returned"]
    /\ result' = [result EXCEPT ![c] = Returned(predictions[c])]
    /\ UNCHANGED <<df, cpu_model, storage_model, fn, n_days, input_data, day,
                   history, predictions, row, npredict, kept, ncalls>>
    /\ UNCHANGED monitoring

\* a caller runs prepare_single_prediction_features(input, df) to its return
Complete(c, input) ==
    /\ pc[c] # "loop"
    /\ ncalls < MaxCalls
    /\ ncalls' = ncalls + 1
    /\ pc' = [pc EXCEPT ![c] = "returned"]
    /\ fn' = [fn EXCEPT ![c] = "prepare_single_prediction_features"]
    /\ input_data' = [input_data EXCEPT ![c] = input]
    /\ result' = [result EXCEPT ![c] = Returned(PrepareSingle(input, df))]
    /\ history' = [history EXCEPT ![c] = << >>]
    /\ predictions' = [predictions EXCEPT ![c] = << >>]
    /\ row' = [row EXCEPT ![c] = NoRow]
    /\ npredict' = [npredict EXCEPT ![c] = 0]
    /\ day' = [day EXCEPT ![c] = 0]
    /\ n_days' = [n_days EXCEPT ![c] = 0]
    /\ UNCHANGED <<df, cpu_model, storage_model, kept>>
    /\ UNCHANGED monitoring

\* the handler keeps the forecast a call returned while it makes further calls
\* (predictions_cpu during recursive_forecast_storage in forecast_7)
Keep(c) ==
    /\ pc[c] = "returned"
    /\ fn[c] \in Functions
    /\ kept = NothingKept
    /\ kept' = [fn |-> fn[c], n_days |-> n_days[c], value |-> result[c].value]
    /\ UNCHANGED <<df, cpu_model, storage_model, pc, fn, n_days, input_data, day,
                   history, predictions, row, npredict, result, ncalls>>
    /\ UNCHANGED monitoring

Next ==
    \E c \in Active :
        \/ \E f \in Functions, n \in 0..MaxDays : Call(c, f, n)
        \/ IterateCpu(c)
        \/ IterateStorage(c)
        \/ Return(c)
        \/ \E input \in PartialInputs : Complete(c, input)
        \/ Keep(c)

Spec == Init /\ [][Next]_vars

\* a request thread enters one forecast call (forecast_7 is served by one thread
\* per request)
ConcurrentCall(c, f, n) ==
    /\ pc[c] = "idle"
    /\ Call(c, f, n)

\* the request threads run their forecast calls side by side, their iterations
\* interleaved in any order
ConcurrentNext ==
    \E c \in Callers :
        \/ \E f \in Functions, n \in 0..MaxDays : ConcurrentCall(c, f, n)
        \/ IterateCpu(c)
        \/ IterateStorage(c)
        \/ Return(c)

ConcurrentSpec == Init /\ [][ConcurrentNext]_vars

\* an iteration of caller c's loop can run: every branch of LoopBody has a next
\* state (the record is appended or the call ends with the exception)
CanIterate(c) == pc[c] = "loop" /\ day[c] \in range(n_days[c])

\* the steps that are an iteration of caller c's loop: the only steps that
\* complete an iteration or end a call in flight with an exception
Iterated(c) == CanIterate(c) /\ (day'[c] = day[c] + 1 \/ pc'[c] = "raised")

\* a thread whose call is in flight keeps running: the return is taken when
\* the loop is exhausted, and an iteration that can run is not put off for ever
\* (weak fairness of the iteration, with its enabling condition written out)
Runs(c) ==
    /\ WF_vars(Return(c))
    /\ \/ []<>(~CanIterate(c))
       \/ []<><<Iterated(c)>>_vars

\* the request threads run side by side and none of them is halted for ever
LiveSpec == Init /\ [][ConcurrentNext]_vars /\ \A c \in Callers : Runs(c)

\* the predictors both loops are given when one predictor serves both
SharedModels ==
    {Predictor("usage_cpu", FullFeatures("usage_cpu"), "lag1_plus_1", "raise"),
     Predictor("usage_cpu", ShortFeatures("usage_cpu"), "stress_plus_month", "raise"),
     Predictor("usage_cpu", FullFeatures("usage_cpu"), "nan_in_january", "raise")}

\* the process with one predictor loaded for both loops
SideBySideInit ==
    /\ df \in Datasets
    /\ \E m \in SharedModels : cpu_model = m /\ storage_model = m
    /\ NoCallYet

\* the CPU loop and the storage loop run side by side on the same dataset,
\* feature list and predictor
SideBySideSpec == SideBySideInit /\ [][ConcurrentNext]_vars

\* n_days=7: the horizon forecast_7 asks both loops for
WeekDays == 7

\* forecast_7: the handler runs a 7-day CPU forecast and a 7-day storage
\* forecast, one after the other
WeekNext ==
    \E c \in Active :
        \/ \E f \in Functions : Call(c, f, WeekDays)
        \/ IterateCpu(c)
        \/ IterateStorage(c)
        \/ Return(c)

WeekSpec == Init /\ [][WeekNext]_vars

\* datetime.now() moves on between two calls
Tick ==
    /\ now + TickHours <= MaxClockDays * HoursPerDay
    /\ now' = now + TickHours
    /\ UNCHANGED <<health_args, health, retrainings>>
    /\ UNCHANGED forecasting

\* trigger_retraining(): the retraining pipeline is started once more
trigger_retraining == retrainings' = retrainings + 1

\* monitoring_stats(mape, threshold, last_train_date), run to its return
Monitor(mape, threshold, last_train_date) ==
    /\ retrainings < MaxRetrainings
    /\ \E out \in {MonitoringStats(mape, threshold, last_train_date, now)} :
           /\ IF out.retrain_triggered
              THEN trigger_retraining
              ELSE UNCHANGED retrainings
           /\ health' = out
    /\ health_args' = [mape |-> mape, threshold |-> threshold,
                       last_train_date |-> last_train_date]
    /\ UNCHANGED now
    /\ UNCHANGED forecasting

MonitorNext ==
    \/ Tick
    \/ \E mape \in MapeValues, threshold \in Thresholds,
          last_train_date \in TrainDates :
           Monitor(mape, threshold, last_train_date)

\* monitoring_stats reads neither the dataset nor the models: the process is
\* followed from the start state with the second dataset and the predictors
\* that take the full feature list and always return a number
MonitorInit ==
    /\ Init
    /\ df = Dataset(2, SeedRows, AllColumns)
    /\ cpu_model = Predictor("usage_cpu", FullFeatures("usage_cpu"),
                             "lag1_plus_1", "raise")

MonitorSpec == MonitorInit /\ [][MonitorNext]_vars

----------------------------------------------------------------------------
(* Properties.  A call is observed through the locals of its caller: row is *)
(* the row of the last model.predict invocation, npredict counts the        *)
(* invocations, predictions holds the values returned so far.               *)

ModelOf(c) == IF fn[c] = "recursive_forecast_cpu" THEN cpu_model ELSE storage_model

TargetOf(c) == IF fn[c] = "recursive_forecast_cpu" THEN "usage_cpu" ELSE "usage_storage"

\* the buffer as the last iteration found it: when the iteration's prediction
\* succeeded its record is the last of history, when predict raised nothing
\* was appended
BufferBefore(c) ==
    IF Len(predictions[c]) = npredict[c]
    THEN SubSeq(history[c], 1, Len(history[c]) - 1)
    ELSE history[c]

\* caller c's forecast call has invoked the predictor
Predicted(c) == fn[c] \in Functions /\ npredict[c] >= 1

\* sum / count, without pandas
ArithmeticMean(s) == Divide(SumSeq(s), Num(Len(s)))

\* sum of squared deviations / (count - ddof); undefined (NaN) for count <= ddof
VarianceDdof(s, ddof) ==
    IF Len(s) <= ddof THEN NaN
    ELSE Divide(SumSeq(SquaredDev(s, ArithmeticMean(s))), Num(Len(s) - ddof))

\* the square of a cell
SquareOf(x) == IF x.r = 2 THEN [n |-> x.n, d |-> x.d, r |-> 1] ELSE Times(x, x)

\* the values of a window that are not missing
Valid(s) == SelectSeq(s, NotNaN)

\* every rolling-std entry of `values` is the square root of the variance, with
\* the given ddof, of the values that are not missing among the last w records
\* of its metric in h
StdIs(values, h, ddof) ==
    \A name \in RollingColumns \cap DOMAIN values :
        RollingSource[name][2] = "std" =>
            SquareOf(values[name]) =
                VarianceDdof(Valid(TailN(Column(h, RollingSource[name][1]),
                                         RollingSource[name][3])), ddof)

\* C1: a recursive forecast that returns, returns exactly n_days predictions
\* made by n_days predictor calls; with n_days = 0 the call does not fail, makes
\* no predictor call, returns the empty sequence and leaves history equal to
\* the seed copy df.tail(7).
C1_ForecastLength ==
    \A c \in Callers :
        fn[c] \in Functions =>
            /\ pc[c] = "returned" =>
                  /\ result[c].status = "ok"
                  /\ Len(result[c].value) = n_days[c]
                  /\ npredict[c] = n_days[c]
            /\ n_days[c] = 0 =>
                  /\ pc[c] \in {"loop", "returned"}
                  /\ npredict[c] = 0
                  /\ history[c] = TailN(df, SeedRows)
                  /\ pc[c] = "returned" => result[c].value = << >>

\* C1 witness: a forecast of MaxDays days has returned MaxDays predictions while
\* the handler holds the empty forecast of an n_days = 0 call.
C1_Witness ==
    /\ pc[1] = "returned"
    /\ fn[1] \in Functions
    /\ n_days[1] = MaxDays
    /\ Len(result[1].value) = MaxDays
    /\ kept.fn \in Functions
    /\ kept.n_days = 0
    /\ kept.value = << >>

\* C2: while a recursive forecast runs and after it, the buffer holds 7 + k
\* records after k completed iterations and its first 7 records are the last 7
\* rows of the dataset.
C2_BufferLength ==
    \A c \in Callers :
        fn[c] \in Functions =>
            /\ Len(history[c]) = 7 + day[c]
            /\ SubSeq(history[c], 1, 7) = TailN(df, 7)

\* C3: every lag-k feature (k in 1, 3, 7; usage_cpu, usage_storage,
\* users_active) of the row handed to the predictor is the metric's value k
\* positions back from the end of the buffer as the iteration found it, where
\* the buffer holds k records; from day 1 on the target's lag-1 feature is the
\* prediction of the day before; the stub lag_1 + 1 on a seed ending in 16
\* predicts 17 at day 0 and is handed lag_1 = 17 at day 1.
C3_LagFromBuffer ==
    \A c \in Callers :
        Predicted(c) =>
            /\ \A name \in LagColumns \cap DOMAIN row[c].data :
                  LagSource[name][2] <= Len(BufferBefore(c)) =>
                      row[c].data[name] =
                          BufferBefore(c)[Len(BufferBefore(c)) - LagSource[name][2] + 1]
                                         [LagSource[name][1]]
            /\ (npredict[c] >= 2 /\ LagName(TargetOf(c), 1) \in DOMAIN row[c].data) =>
                  row[c].data[LagName(TargetOf(c), 1)] = predictions[c][npredict[c] - 1]
            /\ (/\ fn[c] = "recursive_forecast_cpu"
                /\ cpu_model.kind = "lag1_plus_1"
                /\ df[Len(df)]["usage_cpu"] = Num(16)) =>
                  /\ predictions[c] # << >> => predictions[c][1] = Num(17)
                  /\ npredict[c] = 2 => row[c].data["usage_cpu_lag_1"] = Num(17)

\* C3 witness: day 1 of a CPU forecast on a full seed ending in 16 is handed
\* lag_1 = 17, the day-0 prediction, next to its lag-3 and lag-7 features.
C3_Witness ==
    /\ fn[1] = "recursive_forecast_cpu"
    /\ npredict[1] = 2
    /\ Len(df) >= SeedRows
    /\ predictions[1] # << >>
    /\ predictions[1][1] = Num(17)
    /\ {"usage_cpu_lag_1", "usage_cpu_lag_3", "usage_cpu_lag_7",
        "users_active_lag_7"} \subseteq DOMAIN row[1].data
    /\ row[1].data["usage_cpu_lag_1"] = Num(17)

\* the seed of the fixture, oldest first
FixtureSeed == [i \in 1..7 |-> Num(<<10, 12, 11, 13, 14, 15, 16>>[i])]

\* the day-0 features as the scenario lists them
FixtureRowStated ==
    [usage_cpu_lag_1 |-> Num(16), usage_cpu_lag_3 |-> Num(13),
     usage_cpu_lag_7 |-> Num(10), usage_cpu_rolling_mean_3 |-> Num(15),
     usage_cpu_rolling_mean_7 |-> Num(13)]

\* the same with lag_3 the value 3 positions from the end of the seed
FixtureRow == [FixtureRowStated EXCEPT !["usage_cpu_lag_3"] = Num(14)]

\* the day-0 row of a CPU forecast on the fixture seed carries the values of
\* `expected` for the features it holds
DayZeroIs(expected) ==
    \A c \in Callers :
        (/\ fn[c] = "recursive_forecast_cpu"
         /\ npredict[c] = 1
         /\ Column(TailN(df, SeedRows), "usage_cpu") = FixtureSeed) =>
            \A name \in DOMAIN expected \cap DOMAIN row[c].data :
                row[c].data[name] = expected[name]

\* C4 as stated: with seed usage_cpu = [10, 12, 11, 13, 14, 15, 16] the day-0 row
\* of a CPU forecast has usage_cpu_lag_1 = 16, usage_cpu_lag_3 = 13,
\* usage_cpu_lag_7 = 10, usage_cpu_rolling_mean_3 = 15 and
\* usage_cpu_rolling_mean_7 = 13.
C4_FixtureAsStated == DayZeroIs(FixtureRowStated)

\* C4 amended: with seed usage_cpu = [10, 12, 11, 13, 14, 15, 16] the day-0 row of
\* a CPU forecast has usage_cpu_lag_1 = 16, usage_cpu_lag_3 = 14 (the value 3
\* positions from the end), usage_cpu_lag_7 = 10, usage_cpu_rolling_mean_3 = 15
\* and usage_cpu_rolling_mean_7 = 13.
C4_FixtureDayZero == DayZeroIs(FixtureRow)

\* C4 witness: the day-0 row of a CPU forecast on the fixture seed, for a model
\* that takes all five features.
C4_Witness ==
    /\ fn[1] = "recursive_forecast_cpu"
    /\ npredict[1] = 1
    /\ Column(TailN(df, SeedRows), "usage_cpu") = FixtureSeed
    /\ DOMAIN FixtureRow \subseteq DOMAIN row[1].data
    /\ row[1].data["usage_cpu_rolling_mean_7"] = Num(13)
    /\ row[1].data["usage_cpu_lag_3"] = Num(14)

\* C5: every rolling_mean_3 / rolling_mean_7 feature of the row handed to the
\* predictor is the arithmetic mean of the raw metric column over the last 3 / 7
\* records of the buffer as the iteration found it (a function of the raw
\* columns alone), and the last records of that buffer carry, in the target
\* column, the predictions of the days before.
C5_RollingMean ==
    \A c \in Callers :
        Predicted(c) =>
            /\ \A name \in RollingColumns \cap DOMAIN row[c].data :
                  RollingSource[name][2] = "mean" =>
                      row[c].data[name] =
                          ArithmeticMean(TailN(Column(BufferBefore(c),
                                                      RollingSource[name][1]),
                                               RollingSource[name][3]))
            /\ \A j \in 1..(npredict[c] - 1) :
                  BufferBefore(c)[Len(BufferBefore(c)) - j + 1][TargetOf(c)] =
                      predictions[c][npredict[c] - j]

\* C6 as stated: every rolling_std_3 / rolling_std_7 feature is the population
\* standard deviation (squared deviations divided by the number of records in
\* the window) of the last 3 / 7 buffer records, in the loop and in the completer.
C6_PopulationStd ==
    \A c \in Callers :
        /\ Predicted(c) => StdIs(row[c].data, BufferBefore(c), 0)
        /\ (/\ fn[c] = "prepare_single_prediction_features"
            /\ ~Has(input_data[c], "usage_cpu_lag_1")) =>
              StdIs(result[c].value, TailN(df, 7), 0)

\* C6 amended: every rolling_std_3 / rolling_std_7 feature is the sample standard
\* deviation (squared deviations divided by n - 1; NaN when n <= 1) of the n
\* values that are not missing among the last 3 / 7 buffer records, in the loop
\* at every iteration and in the completer.
C6_SampleStd ==
    \A c \in Callers :
        /\ Predicted(c) => StdIs(row[c].data, BufferBefore(c), 1)
        /\ (/\ fn[c] = "prepare_single_prediction_features"
            /\ ~Has(input_data[c], "usage_cpu_lag_1")) =>
              StdIs(result[c].value, TailN(df, 7), 1)

\* C6 witness: the completer on a dataset ending in usage_cpu 14, 15, 16 returns
\* usage_cpu_rolling_std_3 = 1, the sample deviation (the population one is
\* the square root of 2/3).
C6_Witness ==
    /\ fn[1] = "prepare_single_prediction_features"
    /\ ~Has(input_data[1], "usage_cpu_lag_1")
    /\ Len(df) >= SeedRows
    /\ TailN(Column(df, "usage_cpu"), 3) = <<Num(14), Num(15), Num(16)>>
    /\ result[1].value["usage_cpu_rolling_std_3"] = Num(1)

\* C7: a recursive forecast that returns, returns what an earlier call of the
\* same function with the same n_days returned (dataset and predictors are
\* those loaded at startup), whatever calls were made in between.
C7_SameForecast ==
    \A c \in Callers :
        (/\ pc[c] = "returned"
         /\ kept.fn = fn[c]
         /\ kept.n_days = n_days[c]) =>
            result[c].value = kept.value

\* C7 witness: the third call of the run has returned the non-empty forecast
\* that the handler kept from an earlier call with the same arguments.
C7_Witness ==
    /\ ncalls = 3
    /\ pc[1] = "returned"
    /\ kept.fn = fn[1]
    /\ kept.n_days = n_days[1]
    /\ n_days[1] >= 2
    /\ result[1].value = kept.value
    /\ Len(kept.value) = n_days[1]

\* C8: in a storage forecast the usage_cpu_lag_1 feature handed to the
\* predictor is, at every iteration, the usage_cpu value of the last seed
\* record, whatever was predicted for storage.
C8_CpuLagFrozen ==
    \A c \in Callers :
        (/\ fn[c] = "recursive_forecast_storage"
         /\ npredict[c] >= 1
         /\ "usage_cpu_lag_1" \in DOMAIN row[c].data) =>
            row[c].data["usage_cpu_lag_1"] = df[Len(df)]["usage_cpu"]

\* C8 witness: the third iteration of a storage forecast of length >= 2 whose
\* predictions differ from one another.
C8_Witness ==
    /\ fn[1] = "recursive_forecast_storage"
    /\ n_days[1] >= 2
    /\ npredict[1] = 3
    /\ Len(predictions[1]) >= 2
    /\ predictions[1][1] # predictions[1][2]
    /\ "usage_cpu_lag_1" \in DOMAIN row[1].data
    /\ row[1].data["usage_cpu_lag_1"] = df[Len(df)]["usage_cpu"]

\* C9: when the predictor's feature list holds a name that no stage produces
\* and that is no column of the template record, the call fails before the
\* predictor is invoked: no row is handed to the predictor and no prediction is
\* made.
C9_GapSurfaced ==
    \A c \in Callers :
        (/\ fn[c] \in Functions
         /\ \E f \in Range(ModelOf(c).feature_names_in_) : f \notin AllColumns) =>
            /\ npredict[c] = 0
            /\ predictions[c] = << >>

\* C10: with a dataset of fewer than 7 rows a recursive forecast makes no
\* buffer, invokes no predictor and returns no forecast; every buffer that
\* exists holds at least 7 records.
C10_ShortDatasetFails ==
    \A c \in Callers :
        fn[c] \in Functions =>
            /\ history[c] # << >> => Len(history[c]) >= 7
            /\ Len(df) < 7 =>
                  /\ history[c] = << >>
                  /\ npredict[c] = 0
                  /\ pc[c] # "returned"

\* the last predictor invocation of caller c's forecast gave no prediction
FailedPredict(c) == fn[c] \in Functions /\ npredict[c] > Len(predictions[c])

\* C11: once the predictor has raised at iteration i the call has failed: its
\* result is the exception and carries none of the predictions of days 0..i-1,
\* the predictor was invoked once at iteration i, and until the caller starts
\* another call the predictor is not invoked again and no iteration runs.
C11_PredictorRaiseAborts ==
    /\ [](\A c \in Callers :
            FailedPredict(c) =>
                /\ pc[c] = "raised"
                /\ result[c].status = "error"
                /\ result[c].value = << >>
                /\ npredict[c] = Len(predictions[c]) + 1
                /\ day[c] = Len(predictions[c]))
    /\ [][\A c \in Callers :
            (FailedPredict(c) /\ ncalls' = ncalls) =>
                /\ npredict'[c] = npredict[c]
                /\ day'[c] = day[c]
                /\ predictions'[c] = predictions[c]
                /\ history'[c] = history[c]
                /\ result'[c] = result[c]]_vars

\* C11 witness: the predictor raised at iteration 2, after the predictions of
\* days 0 and 1 were made; the call ended with the exception.
C11_Witness ==
    /\ fn[1] \in Functions
    /\ pc[1] = "raised"
    /\ result[1].err = ValueError
    /\ npredict[1] = 3
    /\ Len(predictions[1]) = 2
    /\ result[1].value = << >>

\* C12: a recursive forecast never holds a non-finite prediction: none is in
\* its predictions, none in the forecast it returns and none in the target
\* column of its history buffer.
C12_InvalidPredictionFails ==
    \A c \in Callers :
        fn[c] \in Functions =>
            /\ \A i \in DOMAIN predictions[c] : IsFinite(predictions[c][i])
            /\ \A i \in DOMAIN result[c].value : IsFinite(result[c].value[i])
            /\ \A i \in DOMAIN history[c] : IsFinite(history[c][i][TargetOf(c)])

C16_SuppliedKept ==
    \A c \in Callers :
        fn[c] = "prepare_single_prediction_features" =>
            \A k \in DOMAIN input_data[c] :
                result[c].value[k] = input_data[c][k]

\* C17: on a dataset of at least 7 rows the output of the completer holds every
\* lag-1/3/7 feature, every rolling mean/std 3/7 feature and every derived
\* feature, whatever keys the input supplied.
C17_AllFilled ==
    \A c \in Callers :
        (fn[c] = "prepare_single_prediction_features" /\ Len(df) >= 7) =>
            (LagColumns \cup RollingColumns \cup DerivedColumns)
                \subseteq DOMAIN result[c].value

\* the value the defaulting rule gives operand j of a derived feature: the
\* output's value when the output has the operand, else 1 for the denominator
\* of a ratio and 0 for a numerator or a term of a sum
OperandOrDefault(out, name, j) ==
    IF DerivedOperands[name][j] \in DOMAIN out THEN out[DerivedOperands[name][j]]
    ELSE IF name \in {"cpu_per_user", "storage_per_user", "cpu_storage_ratio",
                      "econ_demand_ratio", "storage_efficiency"} /\ j = 2
    THEN Num(1)
    ELSE Num(0)

\* C18: the completer returns (never raises), and every derived feature the
\* input did not supply is in the output with the value of its formula, a
\* missing numerator operand taken as 0 and a missing denominator operand as 1;
\* econ_demand_ratio with neither operand is 0 / (1 + epsilon).
C18_DerivedDefaults ==
    \A c \in Callers :
        fn[c] = "prepare_single_prediction_features" =>
            /\ result[c].status = "ok"
            /\ \A name \in DerivedColumns \ DOMAIN input_data[c] :
                  /\ name \in DOMAIN result[c].value
                  /\ result[c].value[name] =
                        DerivedFormula(name,
                            [j \in DOMAIN DerivedOperands[name] |->
                                OperandOrDefault(result[c].value, name, j)])
            /\ ({"economic_index", "cloud_market_demand", "econ_demand_ratio"}
                    \cap DOMAIN input_data[c] = {}) =>
                  result[c].value["econ_demand_ratio"] =
                      Divide(Num(0), Plus(Num(1), epsilon))

\* C18 witness: the input supplies economic_index = 5 and no cloud_market_demand;
\* econ_demand_ratio is 5 / (1 + epsilon).
C18_Witness ==
    /\ fn[1] = "prepare_single_prediction_features"
    /\ "economic_index" \in DOMAIN input_data[1]
    /\ "cloud_market_demand" \notin DOMAIN input_data[1]
    /\ result[1].value["econ_demand_ratio"] =
           Divide(input_data[1]["economic_index"], Plus(Num(1), epsilon))

\* C19: the row handed to the predictor has the predictor's declared feature
\* names as its columns, in the declared order, and a cell for each of them
\* and for no other label.
C19_RowMatchesFeatures ==
    \A c \in Callers :
        Predicted(c) =>
            /\ row[c].columns = ModelOf(c).feature_names_in_
            /\ DOMAIN row[c].data = Range(ModelOf(c).feature_names_in_)

\* C19 witness: a model that declares four features, in another order than the
\* dataset's columns, was handed a row of exactly these four.
C19_Witness ==
    /\ fn[1] = "recursive_forecast_cpu"
    /\ npredict[1] >= 1
    /\ cpu_model.feature_names_in_ = ShortFeatures("usage_cpu")
    /\ row[1].columns = ShortFeatures("usage_cpu")
    /\ Cardinality(DOMAIN row[1].data) = 4

\* every derived column of the last record of d comes with the columns its
\* formula reads
OperandsPresent(d) ==
    \A name \in DerivedColumns \cap DOMAIN d[Len(d)] :
        \A j \in DOMAIN DerivedOperands[name] :
            DerivedOperands[name][j] \in DOMAIN d[Len(d)]

RECURSIVE Alone(_, _, _, _, _)

\* the rest of a run on its own after model.predict gave p for the record rec
AloneAfterPredict(model, target, h, made, n, rec, p) ==
    IF ~p.ok THEN Raised(p.err)
    ELSE Alone(model, target, Concat(h, SetItem(rec.last, target, p.value)),
               Append(made, p.value), n - 1)

\* the rest of a run on its own after the stages gave rec
AloneAfterStages(model, target, h, made, n, rec) ==
    IF rec.err # NoError THEN Raised(rec.err)
    ELSE AloneAfterPredict(model, target, h, made, n, rec,
                           Predict(model, Reindex(rec.last, model.feature_names_in_)))

\* what a forecast call returns or raises when it runs on its own: n more
\* iterations from the buffer h with the predictions `made`
Alone(model, target, h, made, n) ==
    IF n = 0 THEN Returned(made)
    ELSE IF h = << >> THEN Raised(IndexError)
    ELSE AloneAfterStages(model, target, h, made, n, Reconstruct(h[Len(h)], h))

\* C15: forecast calls of several request threads, interleaved in any order,
\* each end as the same call ends when run alone on the shared dataset and
\* predictor, and the buffer of a call holds the seed followed by the records
\* of its own predictions only.
C15_Isolated ==
    \A c \in Callers :
        fn[c] \in Functions =>
            /\ pc[c] \in {"returned", "raised"} =>
                  result[c] = Alone(ModelOf(c), TargetOf(c), TailN(df, SeedRows),
                                    << >>, n_days[c])
            /\ Len(history[c]) = Len(TailN(df, SeedRows)) + Len(predictions[c])
            /\ \A j \in DOMAIN predictions[c] :
                  history[c][Len(TailN(df, SeedRows)) + j][TargetOf(c)] =
                      predictions[c][j]

\* C15 witness: a CPU forecast of MaxDays days has returned while the storage
\* forecast of the other thread is between its iterations.
C15_Witness ==
    /\ fn[1] = "recursive_forecast_cpu"
    /\ pc[1] = "returned"
    /\ Len(result[1].value) = MaxDays
    /\ fn[2] = "recursive_forecast_storage"
    /\ pc[2] = "loop"
    /\ day[2] = 2
    /\ Len(history[2]) = SeedRows + 2

\* a step that is a monitoring_stats call
Checked ==
    <<health_args, health, retrainings>>' # <<health_args, health, retrainings>>

\* whole days between the training date of the call and the clock
AgeInDays(a) ==
    LET trained == IF a.last_train_date.none
                   THEN 0 - MockTrainAgeDays * HoursPerDay
                   ELSE a.last_train_date.at
        hours == now - trained
    IN  CHOOSE k \in (0 - 2 * StaleDays)..(2 * StaleDays) :
            k * HoursPerDay <= hours /\ hours < (k + 1) * HoursPerDay

\* C20: monitoring_stats reports retrain_triggered = true and invokes
\* trigger_retraining exactly when mape > threshold or more than 30 days have
\* passed since the last training date (the age being the whole days the
\* function reports as days_since_retrain); when mape <= threshold and the age
\* is <= 30 days it reports status 'stable', retrain_triggered = false and does
\* not invoke trigger_retraining.
C20_RetrainRule ==
    [][Checked =>
        LET a == health_args'
            due == Greater(a.mape, a.threshold) \/ AgeInDays(a) > 30
            calm == /\ IsFinite(a.mape)
                    /\ ~Greater(a.mape, a.threshold)
                    /\ AgeInDays(a) <= 30
        IN  /\ health'.retrain_triggered = due
            /\ retrainings' = retrainings + (IF due THEN 1 ELSE 0)
            /\ health'.days_since_retrain = AgeInDays(a)
            /\ calm => /\ health'.status = "stable"
                       /\ ~health'.retrain_triggered
                       /\ retrainings' = retrainings]_vars

\* a report made 31 whole days after the training date with mape at the
\* threshold: retraining was started by the age alone
C20_Witness ==
    /\ health.status = "stale"
    /\ health.retrain_triggered
    /\ health.days_since_retrain = StaleDays + 1
    /\ health_args.mape = health_args.threshold
    /\ retrainings = 1

\* C21: whenever mape > threshold, monitoring_stats reports drift: the status
\* of the report is 'drift_detected', for every value of the last training date.
C21_DriftReported ==
    Greater(health_args.mape, health_args.threshold)
        => health.status = "drift_detected"

\* C22: each reconstruction stage writes a lag, rolling or derived feature only
\* if that feature name appears in the predictor's required feature list; a
\* feature the predictor does not require is never computed, even when the
\* template has a column of that name (the appended record keeps the value the
\* previous record has for it).
C22_OnlyRequiredWritten ==
    \A c \in Callers :
        (fn[c] \in Functions /\ Len(predictions[c]) >= 1 /\ Len(history[c]) >= 2) =>
            LET rec == history[c][Len(history[c])]
                prev == history[c][Len(history[c]) - 1]
            IN  \A f \in (LagColumns \cup RollingColumns \cup DerivedColumns)
                         \cap (DOMAIN rec \cap DOMAIN prev) :
                    f \notin Range(ModelOf(c).feature_names_in_) => rec[f] = prev[f]

\* the records of caller c's buffer that were there when the call started
SeedLength(c) == Len(history[c]) - Len(predictions[c])

\* the calendar of the record appended by iteration k, from the calendar m, y,
\* w of the last record of the seed
CalendarAfter(m, y, w, k) ==
    [month |-> Num(((m - 1 + k) % 12) + 1),
     year |-> Num(y + ((m - 1 + k) \div 12)),
     is_weekend |-> Num(IF k % 2 = 0 THEN w ELSE 1 - w)]

\* C23: calendar advance.  For a seed whose last record has month m in 1..12,
\* year y and is_weekend w in {0,1}, the record appended by iteration k
\* (1-based) has month = ((m - 1 + k) mod 12) + 1, year = y + floor((m - 1 + k)
\* / 12) and is_weekend = w if k is even else 1 - w; so month stays in 1..12,
\* is_weekend stays in {0,1}, and year increases by one exactly at the steps
\* where month passes from 12 to 1.
C23_CalendarAdvance ==
    \A c \in Callers :
        (fn[c] \in Functions /\ SeedLength(c) >= 1) =>
            \A k \in 1..Len(predictions[c]) :
                LET first == history[c][SeedLength(c)]
                    before == history[c][SeedLength(c) + k - 1]
                    rec == history[c][SeedLength(c) + k]
                    expected == CalendarAfter(first.month.n, first.year.n,
                                              first.is_weekend.n, k)
                IN  /\ rec.month = expected.month
                    /\ rec.year = expected.year
                    /\ rec.is_weekend = expected.is_weekend
                    /\ rec.month.n \in 1..12
                    /\ rec.is_weekend.n \in {0, 1}
                    /\ rec.year.n - before.year.n =
                           (IF before.month.n = 12 /\ rec.month.n = 1 THEN 1 ELSE 0)

\* a November seed after three iterations: the year was advanced by the second
C23_Witness ==
    \E c \in Callers :
        /\ fn[c] \in Functions
        /\ Len(predictions[c]) = 3
        /\ SeedLength(c) = SeedRows
        /\ history[c][SeedRows].month = Num(11)
        /\ history[c][SeedRows + 1].year = history[c][SeedRows].year
        /\ history[c][SeedRows + 2].year = Plus(history[c][SeedRows].year, Num(1))
        /\ history[c][SeedRows + 3].month = Num(2)

\* C24: in each iteration the appended record overwrites only the run's own
\* target raw metric with the prediction: in a CPU run usage_storage,
\* users_active, economic_index and cloud_market_demand of the appended record
\* equal those of the buffer's previous last record, and in a storage run
\* usage_cpu, users_active, economic_index and cloud_market_demand do; so every
\* non-target raw metric keeps the seed's last value in all appended records.
C24_OnlyTargetOverwritten ==
    \A c \in Callers :
        (fn[c] \in Functions /\ SeedLength(c) >= 1) =>
            \A k \in 1..Len(predictions[c]) :
                LET first == history[c][SeedLength(c)]
                    before == history[c][SeedLength(c) + k - 1]
                    rec == history[c][SeedLength(c) + k]
                IN  /\ rec[TargetOf(c)] = predictions[c][k]
                    /\ \A x \in RawColumns \ {TargetOf(c)} :
                           rec[x] = before[x] /\ rec[x] = first[x]

\* a storage run after two iterations: the appended records hold the seed's last
\* usage_cpu and the predicted usage_storage
C24_Witness ==
    \E c \in Callers :
        /\ fn[c] = "recursive_forecast_storage"
        /\ Len(predictions[c]) = 2
        /\ SeedLength(c) = SeedRows
        /\ history[c][SeedRows + 2].usage_cpu = history[c][SeedRows].usage_cpu
        /\ history[c][SeedRows + 2].usage_storage = predictions[c][2]
        /\ history[c][SeedRows + 2].usage_storage # history[c][SeedRows].usage_storage

\* the features that are computed from usage_cpu alone (and the frozen
\* users_active)
CpuLagsAndWindows == {3, 7}

\* the appended record k of a storage run holds the frozen usage_cpu x in its
\* lag-1 feature and the derived features that read it
FrozenFromStart(rec, x, users) ==
    /\ rec["usage_cpu_lag_1"] = x
    /\ rec["cpu_per_user"] = Divide(x, Plus(users, epsilon))
    /\ rec["cpu_utilization_ratio"] = Divide(x, Num(100))

\* the window features of width w once the last w records hold the frozen x
FrozenWindow(rec, x, w) ==
    /\ rec[LagName("usage_cpu", w)] = x
    /\ rec[RollingName("usage_cpu", "mean", w)] = x
    /\ rec[RollingName("usage_cpu", "std", w)] = Num(0)

\* the CPU-derived features the statement is about
CpuFeatures ==
    {LagName("usage_cpu", k) : k \in LagOffsets}
    \cup {RollingName("usage_cpu", s, w) : s \in {"mean", "std"}, w \in Windows}
    \cup {"cpu_per_user", "cpu_utilization_ratio"}

\* C25 as stated: in a storage-only run, every CPU-derived feature is constant
\* after the first append: its value at every iteration i >= 1 (0-based, held by
\* appended record i + 1) equals its value at iteration 1.
C25_ConstantAfterFirstAppend ==
    \A c \in Callers :
        (fn[c] = "recursive_forecast_storage" /\ SeedLength(c) = SeedRows) =>
            \A k \in 2..Len(predictions[c]) :
                \A f \in CpuFeatures :
                    history[c][SeedRows + k][f] = history[c][SeedRows + 2][f]

\* C25, amended: in a storage-only run usage_cpu_lag_1, cpu_per_user and
\* cpu_utilization_ratio have the same value at every iteration (computed from
\* the last usage_cpu of the seed); usage_cpu_lag_w and the usage_cpu rolling
\* mean / std of width w (w = 3, 7) are constant only from iteration w - 1 on
\* (0-based), when the last w buffer records all hold that frozen value (lag and
\* mean equal it, std is 0); before that, at iteration i < w - 1, the lag is
\* the usage_cpu of the seed record w - i positions from the seed's end.
C25_FrozenOnceWindowFilled ==
    \A c \in Callers :
        (fn[c] = "recursive_forecast_storage" /\ SeedLength(c) = SeedRows) =>
            \A k \in 1..Len(predictions[c]) :
                LET rec == history[c][SeedRows + k]
                    x == history[c][SeedRows]["usage_cpu"]
                    users == history[c][SeedRows]["users_active"]
                IN  /\ FrozenFromStart(rec, x, users)
                    /\ \A w \in CpuLagsAndWindows :
                           IF k - 1 >= w - 1
                           THEN FrozenWindow(rec, x, w)
                           ELSE rec[LagName("usage_cpu", w)] =
                                    history[c][SeedRows - (w - (k - 1)) + 1]["usage_cpu"]

\* a 7-day storage run whose seventh record has the frozen 7-day window while
\* its second record still read the lag-7 value from the seed
C25_Witness ==
    \E c \in Callers :
        /\ fn[c] = "recursive_forecast_storage"
        /\ Len(predictions[c]) = WeekDays
        /\ SeedLength(c) = SeedRows
        /\ history[c][SeedRows + 7]["usage_cpu_lag_7"] = history[c][SeedRows]["usage_cpu"]
        /\ history[c][SeedRows + 7]["usage_cpu_rolling_std_7"] = Num(0)
        /\ history[c][SeedRows + 2]["usage_cpu_lag_7"] # history[c][SeedRows]["usage_cpu"]
        /\ history[c][SeedRows + 2]["usage_cpu_lag_3"]
               # history[c][SeedRows + 3]["usage_cpu_lag_3"]

\* the last record of the buffer as the iteration of caller c's last
\* model.predict invocation found it
CurrentLast(c) == BufferBefore(c)[Len(BufferBefore(c))]

\* C26: stage order, lag before derived.  At every iteration the derived
\* features of the row are computed from the lag-1 values written in the same
\* pass, so the row satisfies system_stress = usage_cpu_lag_1 +
\* usage_storage_lag_1 + users_active_lag_1 and cpu_utilization_ratio =
\* usage_cpu_lag_1 / 100 with usage_cpu_lag_1 equal to the buffer's current last
\* usage_cpu (never the stale lag value copied from the template record).
C26_LagBeforeDerived ==
    \A c \in Callers :
        (Predicted(c) /\ BufferBefore(c) # << >>) =>
            LET x == row[c].data
                b == CurrentLast(c)
                lags == {"usage_cpu_lag_1", "usage_storage_lag_1", "users_active_lag_1"}
            IN  /\ "usage_cpu_lag_1" \in DOMAIN x => x["usage_cpu_lag_1"] = b["usage_cpu"]
                /\ "system_stress" \in DOMAIN x =>
                       x["system_stress"] =
                           Plus(Plus(b["usage_cpu"], b["usage_storage"]), b["users_active"])
                /\ ({"system_stress"} \cup lags) \subseteq DOMAIN x =>
                       x["system_stress"] =
                           Plus(Plus(x["usage_cpu_lag_1"], x["usage_storage_lag_1"]),
                                x["users_active_lag_1"])
                /\ "cpu_utilization_ratio" \in DOMAIN x =>
                       x["cpu_utilization_ratio"] = Divide(b["usage_cpu"], Num(100))

\* the second iteration of a CPU run: the template record still carries the
\* lag-1 value of the day before, the row has the value just predicted
C26_Witness ==
    \E c \in Callers :
        /\ fn[c] = "recursive_forecast_cpu"
        /\ npredict[c] = 2
        /\ Len(predictions[c]) = 2
        /\ {"system_stress", "cpu_utilization_ratio", "usage_cpu_lag_1"}
               \subseteq DOMAIN row[c].data
        /\ row[c].data["usage_cpu_lag_1"] = predictions[c][1]
        /\ CurrentLast(c)["usage_cpu_lag_1"] # predictions[c][1]
        /\ row[c].data["cpu_utilization_ratio"] = Divide(predictions[c][1], Num(100))

\* the five ratio features
RatioFeatures ==
    {"cpu_per_user", "storage_per_user", "cpu_storage_ratio", "econ_demand_ratio",
     "storage_efficiency"}

\* the exceptions a forecast call ends with
RaisedTypes == {"none", "KeyError", "IndexError", "ValueError"}

\* C27: in the recursive path, computing the ratio features (cpu_per_user,
\* storage_per_user, cpu_storage_ratio, econ_demand_ratio, storage_efficiency)
\* never raises a division-by-zero error: for every non-negative value of
\* users_active_lag_1, usage_storage_lag_1 and cloud_market_demand, including 0,
\* the denominator used is the operand plus epsilon and is non-zero (so the
\* ratio of a finite numerator is finite).
C27_NoDivisionByZero ==
    \A c \in Callers :
        (fn[c] \in Functions /\ SeedLength(c) >= 1) =>
            /\ result[c].err.type \in RaisedTypes
            /\ \A k \in 1..Len(predictions[c]) :
                   LET rec == history[c][SeedLength(c) + k]
                   IN  \A name \in RatioFeatures \cap DOMAIN rec :
                           LET top == rec[DerivedOperands[name][1]]
                               operand == rec[DerivedOperands[name][2]]
                               bottom == Plus(operand, Rat(1, 1000000))
                           IN  (IsFinite(operand) /\ operand.n >= 0) =>
                                   /\ bottom # Num(0)
                                   /\ bottom.n > 0
                                   /\ rec[name] = Divide(top, bottom)
                                   /\ IsFinite(top) => IsFinite(rec[name])

\* a first iteration whose three denominator operands are all 0
C27_Witness ==
    \E c \in Callers :
        /\ fn[c] \in Functions
        /\ SeedLength(c) = SeedRows
        /\ Len(predictions[c]) >= 1
        /\ history[c][SeedRows + 1]["users_active_lag_1"] = Num(0)
        /\ history[c][SeedRows + 1]["usage_storage_lag_1"] = Num(0)
        /\ history[c][SeedRows + 1]["cloud_market_demand"] = Num(0)
        /\ history[c][SeedRows + 1]["cpu_per_user"] = Num(16000000)
        /\ IsFinite(history[c][SeedRows + 1]["econ_demand_ratio"])

\* C28: the recursive loop does not default a missing operand: if the template
\* record has a derived column (e.g. cpu_per_user or system_stress) but lacks a
\* lag-1 column that formula reads, the forecast call raises at the first
\* iteration, before any predictor call, and returns no forecast (whereas the
\* single-shot completer substitutes 0 / 1 and returns).
C28_MissingOperandRaises ==
    \A c \in Callers :
        /\ (fn[c] \in Functions /\ Len(df) >= 1 /\ ~OperandsPresent(df)) =>
               /\ npredict[c] = 0
               /\ day[c] = 0
               /\ predictions[c] = << >>
               /\ pc[c] = "raised" => result[c] = Raised(KeyError("users_active_lag_1"))
               /\ pc[c] = "returned" => n_days[c] = 0 /\ result[c].value = << >>
        /\ fn[c] = "prepare_single_prediction_features" => result[c].status = "ok"

\* a forecast call on the dataset without users_active_lag_1 has ended with the
\* KeyError of that label, its predictor never invoked
C28_Witness ==
    \E c \in Callers :
        /\ fn[c] \in Functions
        /\ n_days[c] >= 1
        /\ Len(df) = SeedRows
        /\ "cpu_per_user" \in DOMAIN df[Len(df)]
        /\ "users_active_lag_1" \notin DOMAIN df[Len(df)]
        /\ pc[c] = "raised"
        /\ result[c].err = KeyError("users_active_lag_1")
        /\ npredict[c] = 0
        /\ row[c] = NoRow

\* one iteration of the reference loop with target column `target` on the
\* buffer h: the row handed to the predictor, the prediction, the buffer after
\* the append, and the exception that ends the call instead
ReferenceStep(model, target, h) ==
    IF h = << >>
    THEN [err |-> IndexError, row |-> NoRow, pred |-> NaN, buffer |-> h]
    ELSE LET rec == Reconstruct(h[Len(h)], h)
             x == Reindex(rec.last, model.feature_names_in_)
             p == Predict(model, x)
         IN  IF rec.err # NoError
             THEN [err |-> rec.err, row |-> NoRow, pred |-> NaN, buffer |-> h]
             ELSE IF ~p.ok
             THEN [err |-> p.err, row |-> x, pred |-> NaN, buffer |-> h]
             ELSE [err |-> NoError, row |-> x, pred |-> p.value,
                   buffer |-> Concat(h, [rec.last EXCEPT ![target] = p.value])]

\* the step of caller c is one iteration of the reference loop for its target
FollowsReference(c) ==
    LET ref == ReferenceStep(ModelOf(c), TargetOf(c), history[c])
    IN  IF ref.err = NoError
        THEN /\ row'[c] = ref.row
             /\ predictions'[c] = Append(predictions[c], ref.pred)
             /\ history'[c] = ref.buffer
             /\ history'[c][Len(history'[c])][TargetOf(c)] = ref.pred
             /\ pc'[c] = "loop"
        ELSE /\ pc'[c] = "raised"
             /\ result'[c] = Raised(ref.err)
             /\ predictions'[c] = predictions[c]
             /\ history'[c] = history[c]
             /\ ref.row # NoRow => row'[c] = ref.row

C30_LagConsistency ==
    \A c \in Callers :
        fn[c] \in Functions =>
            \A i \in 8..Len(history[c]) :
                i > SeedLength(c) =>
                    \A x \in RawMetricSet, k \in LagOffsets :
                        LagName(x, k) \in DOMAIN history[c][i] =>
                            history[c][i][LagName(x, k)] = history[c][i - k][x]

\* a 7-day CPU run from a seed of 3 records: the record at index 7 reads its
\* lag-7 value from the first seed record and its lag-1 and lag-3 values from
\* predictions
C30_Witness ==
    \E c \in Callers :
        /\ fn[c] = "recursive_forecast_cpu"
        /\ SeedLength(c) = 3
        /\ Len(predictions[c]) = WeekDays
        /\ history[c][8]["usage_cpu_lag_7"] = history[c][1]["usage_cpu"]
        /\ history[c][8]["usage_cpu_lag_3"] = predictions[c][2]
        /\ history[c][8]["usage_cpu_lag_1"] = predictions[c][4]
        /\ history[c][10]["usage_cpu_lag_7"] = history[c][3]["usage_cpu"]

====
